---- MODULE Spec2Model ----
(***************************************************************************)
(* Model of app.py (AI Head Turner): the start-up configuration block, the *)
(* upload / slider / button script, and generate_new_pose, the prompt      *)
(* builder wrapped in @st.cache_data(ttl=3600).                            *)
(*                                                                         *)
(* Every user interaction re-runs the script from the top in the session's *)
(* own thread; the cache behind the decorator is shared by all sessions of *)
(* the process.                                                            *)
(***************************************************************************)
EXTENDS Integers, Sequences, FiniteSets, TLC

VARIABLES
    api_key,      \* os.getenv("FALAI_API_KEY") as the process sees it
    pc,           \* per session: where its script thread stands
    client,       \* per session run: the module-level InferenceClient, or None
    uploaded,     \* per session: the file in the uploader, or NoFile
    shown,        \* per session: what the last run put on the page
    pending,      \* per session: the generate_new_pose call in progress, or None
    cache,        \* the st.cache_data store of generate_new_pose
    locks,        \* the per-key compute locks of the store, with their holders
    now,          \* the clock of the store, in seconds
    invocations,  \* number of client.image_to_image calls issued so far
    calls         \* history: the generate_new_pose calls that have ended

vars == <<api_key, pc, client, uploaded, shown, pending,
          cache, locks, now, invocations, calls>>

-----------------------------------------------------------------------------
(* Bounds of the exploration *)

MaxCalls == 2        \* generate_new_pose calls per behaviour
MaxTicks == 2        \* clock steps per behaviour
ClockStep == 1800    \* seconds per clock step

Sessions == {"s1", "s2"}
Images == {"photoA", "photoB"}
SliderChoices == {<<0, 0>>, <<30, -10>>}   \* (yaw, pitch) positions the sessions visit

(* Program constants *)

TTL == 3600          \* @st.cache_data(ttl=3600)
DeadZone == 5        \* the "dead zone" of both angles
YawMin == -45
YawMax == 45
PitchMin == -30
PitchMax == 30

None == [none |-> TRUE]   \* Python's None where an object is expected
Unset == "<unset>"        \* os.getenv of a variable that is not set
NoFile == "<no file>"     \* the uploader with nothing in it
Raised == [raised |-> TRUE]

-----------------------------------------------------------------------------
(* The prompt built by generate_new_pose *)

abs(n) == IF n < 0 THEN -n ELSE n

Digit(d) == SubSeq("0123456789", d + 1, d + 1)

\* str() of a non-negative int, as the f-string renders {abs(h_angle)}
RECURSIVE FormatInt(_)
FormatInt(n) == IF n < 10 THEN Digit(n)
                ELSE FormatInt(n \div 10) \o Digit(n % 10)

persona == "You are an expert digital artist specializing in photorealistic edits."

negative_constraints ==
    "Do not change the person's identity, facial features, hair, or expression. "
    \o "Do not alter the background, lighting, or clothing. "
    \o "Preserve the original photo's style and quality."

h_direction_inclusive(h) ==
    IF h >= DeadZone THEN "approximately " \o FormatInt(abs(h)) \o " degrees to the right"
    ELSE IF h <= -DeadZone THEN "approximately " \o FormatInt(abs(h)) \o " degrees to the left"
    ELSE "forward"

h_direction(h) ==
    IF h > DeadZone THEN "approximately " \o FormatInt(abs(h)) \o " degrees to the right"
    ELSE IF h < -DeadZone THEN "approximately " \o FormatInt(abs(h)) \o " degrees to the left"
    ELSE "forward"

v_direction(v) ==
    IF v > DeadZone THEN "tilted approximately " \o FormatInt(abs(v)) \o " degrees upward"
    ELSE IF v < -DeadZone THEN "tilted approximately " \o FormatInt(abs(v)) \o " degrees downward"
    ELSE "level"

BuildPrompt(h, v) ==
    persona \o " "
    \o "Regenerate this image. Your only task is to change the head pose of the person. "
    \o "Make them look " \o h_direction(h) \o " and " \o v_direction(v) \o ". "
    \o negative_constraints

-----------------------------------------------------------------------------
(* Start-up configuration block *)

EnvValues == {Unset, "", "fal-key"}   \* unset, set but empty, set

\* `not api_key`, mutated to `api_key is None`
IsNoneOnly(v) == v = Unset

\* `not api_key`: None and the empty string are both falsy
Falsy(v) == v \in {Unset, ""}

\* try: ... raise ValueError / InferenceClient(...)  except: st.error; st.stop()
Configure(key) ==
    IF Falsy(key)
    THEN [ok |-> FALSE, client |-> None, msgs |-> {"Configuration Error"}]
    ELSE [ok |-> TRUE,
          client |-> [provider |-> "fal-ai", token |-> key, timeout |-> None],
          msgs |-> {}]

-----------------------------------------------------------------------------
(* The st.cache_data store behind generate_new_pose *)

\* A key that hashes the image too
CacheKeyWithImage(img, h, v) == <<img, h, v>>

\* The decorator hashes every argument whose name has no leading underscore:
\* `_image` is left out, h_angle and v_angle make the key.
CacheKey(img, h, v) == <<h, v>>

\* An entry that never expires
FreshForever(e, t) == TRUE

\* An entry is served while the clock is before created + ttl
Fresh(e, t) == t < e.created + TTL

Lookup(key, t) ==
    LET found == {e \in cache : e.key = key /\ Fresh(e, t)}
    IN IF found = {} THEN None ELSE CHOOSE e \in found : TRUE

\* Writing expires the old entries and replaces the key's entry whole
Store(key, value, msgs, t) ==
    {e \in cache : e.key # key /\ Fresh(e, t)}
        \cup {[key |-> key, value |-> value, msgs |-> msgs, created |-> t]}

\* No lock at all
NeverLocked(key) == TRUE

\* The compute lock of a key is taken by at most one thread
LockFree(key) == \A l \in locks : l.key # key

-----------------------------------------------------------------------------
(* The external capability and the body of generate_new_pose *)

Errors == {"HfHubHTTPError", "ConnectionError"}   \* both subclasses of Exception
Outcomes == {"image", "no_payload"} \cup Errors

\* `except HfHubHTTPError`
CaughtHttpOnly(err) == err = "HfHubHTTPError"

\* `except Exception as e`
Caught(err) == err \in Errors

ErrorMessage == "An error occurred while communicating with the AI model."

\* try: return client.image_to_image(...)  except Exception: st.error(...); return None
Body(outcome, img, prompt, n) ==
    IF outcome = "image"
    THEN [returned |-> TRUE, value |-> [src |-> img, prompt |-> prompt, n |-> n], msgs |-> {}]
    ELSE IF outcome = "no_payload"
    THEN [returned |-> TRUE, value |-> None, msgs |-> {}]
    ELSE IF Caught(outcome)
    THEN [returned |-> TRUE, value |-> None, msgs |-> {ErrorMessage}]
    ELSE [returned |-> FALSE, value |-> None, msgs |-> {}]

\* `if generated_image:`
Truthy(value) == value # None

\* What the button handler puts on the page for a returned value; the
\* messages are those the function emitted (replayed on a hit).
Page(value, msgs) ==
    IF Truthy(value)
    THEN [msgs |-> msgs \cup {"Generation Complete!"}, image |-> value]
    ELSE [msgs |-> msgs, image |-> None]

DisplayOf(page) ==
    IF page.image # None THEN "image"
    ELSE IF page.msgs # {} THEN "error" ELSE "nothing"

Blank == [msgs |-> {}, image |-> None]

InFlight == {s \in Sessions : pending[s] # None}
Budget == Len(calls) + Cardinality(InFlight) < MaxCalls

-----------------------------------------------------------------------------
Init ==
    /\ api_key \in EnvValues
    /\ pc = [s \in Sessions |-> "start"]
    /\ client = [s \in Sessions |-> None]
    /\ uploaded = [s \in Sessions |-> NoFile]
    /\ shown = [s \in Sessions |-> Blank]
    /\ pending = [s \in Sessions |-> None]
    /\ cache = {}
    /\ locks = {}
    /\ now = 0
    /\ invocations = 0
    /\ calls = <<>>

\* The top of every script run: the configuration block. The rest of the run
\* is reached only when it did not st.stop().
Top(s) ==
    LET c == Configure(api_key)
    IN /\ client' = [client EXCEPT ![s] = c.client]
       /\ pc' = [pc EXCEPT ![s] = IF c.ok THEN "ui" ELSE "stopped"]

\* First load, or a reload, with nothing uploaded: st.info(...)
RunScript(s) ==
    /\ pc[s] \in {"start", "stopped"}
    /\ Top(s)
    /\ shown' = [shown EXCEPT ![s] =
                    IF Configure(api_key).ok
                    THEN [msgs |-> {"Please upload an image to get started."}, image |-> None]
                    ELSE [msgs |-> Configure(api_key).msgs, image |-> None]]
    /\ UNCHANGED <<api_key, uploaded, pending, cache, locks, now, invocations, calls>>

\* The user picks a file: the run shows the original and the sliders
Upload(s, img) ==
    /\ pc[s] = "ui"
    /\ Top(s)
    /\ uploaded' = [uploaded EXCEPT ![s] = img]
    /\ shown' = [shown EXCEPT ![s] = Blank]
    /\ UNCHANGED <<api_key, pending, cache, locks, now, invocations, calls>>

\* The user moves a slider: the run reads h_angle and v_angle from the
\* sliders and redraws the direction preview; the button is not pressed.
Adjust(s, y, p) ==
    /\ pc[s] = "ui" /\ uploaded[s] # NoFile
    /\ y \in YawMin..YawMax /\ p \in PitchMin..PitchMax
    /\ Top(s)
    /\ shown' = [shown EXCEPT ![s] = Blank]
    /\ UNCHANGED <<api_key, uploaded, pending, cache, locks, now, invocations, calls>>

\* A call answered from the store: the value and the recorded messages
ServeHit(s, e, req) ==
    /\ shown' = [shown EXCEPT ![s] = Page(e.value, e.msgs)]
    /\ calls' = Append(calls,
          [s |-> s, img |-> req.img, h |-> req.h, v |-> req.v, t |-> req.t,
           at |-> now, done |-> now, invoked |-> FALSE, outcome |-> "cached",
           result |-> e.value, display |-> DisplayOf(Page(e.value, e.msgs))])

\* "Apply New Pose" with the sliders at (y, p): the run calls
\* generate_new_pose; the wrapper first reads the store without the lock.
Click(s, y, p) ==
    /\ pc[s] = "ui" /\ uploaded[s] # NoFile
    /\ y \in YawMin..YawMax /\ p \in PitchMin..PitchMax
    /\ Budget
    /\ LET c == Configure(api_key)
           req == [img |-> uploaded[s], h |-> y, v |-> p,
                   t |-> now, at |-> now, prompt |-> ""]
           e == Lookup(CacheKey(req.img, req.h, req.v), now)
       IN /\ client' = [client EXCEPT ![s] = c.client]
          /\ IF ~c.ok
             THEN /\ pc' = [pc EXCEPT ![s] = "stopped"]
                  /\ shown' = [shown EXCEPT ![s] = [msgs |-> c.msgs, image |-> None]]
                  /\ UNCHANGED <<pending, calls>>
             ELSE IF e # None
             THEN /\ ServeHit(s, e, req)
                  /\ UNCHANGED <<pc, pending>>
             ELSE /\ pc' = [pc EXCEPT ![s] = "waitlock"]
                  /\ pending' = [pending EXCEPT ![s] = req]
                  /\ shown' = [shown EXCEPT ![s] = Blank]
                  /\ UNCHANGED calls
    /\ UNCHANGED <<api_key, uploaded, cache, locks, now, invocations>>

\* The miss path: take the key's compute lock, read the store again, and if
\* the entry is still missing run the function body up to the external call.
Compute(s) ==
    /\ pc[s] = "waitlock"
    /\ LET req == pending[s]
           key == CacheKey(req.img, req.h, req.v)
           e == Lookup(key, now)
       IN /\ LockFree(key)
          /\ IF e # None
             THEN /\ ServeHit(s, e, req)
                  /\ pc' = [pc EXCEPT ![s] = "ui"]
                  /\ pending' = [pending EXCEPT ![s] = None]
                  /\ UNCHANGED <<locks, invocations>>
             ELSE /\ locks' = locks \cup {[key |-> key, holder |-> s]}
                  /\ pending' = [pending EXCEPT ![s] =
                        [req EXCEPT !.at = now, !.prompt = BuildPrompt(req.h, req.v)]]
                  /\ invocations' = invocations + 1
                  /\ pc' = [pc EXCEPT ![s] = "calling"]
                  /\ UNCHANGED <<shown, calls>>
    /\ UNCHANGED <<api_key, client, uploaded, cache, now>>

\* client.image_to_image comes back; the wrapper stores what the function
\* returned, releases the lock, and the button handler shows the result.
ExternalReturn(s, outcome) ==
    /\ pc[s] = "calling"
    /\ outcome \in Outcomes
    /\ LET req == pending[s]
           key == CacheKey(req.img, req.h, req.v)
           b == Body(outcome, req.img, req.prompt, invocations)
           page == IF b.returned THEN Page(b.value, b.msgs)
                   ELSE [msgs |-> {"Uncaught exception"}, image |-> None]
       IN /\ cache' = IF b.returned THEN Store(key, b.value, b.msgs, now) ELSE cache
          /\ locks' = {l \in locks : l.holder # s}
          /\ shown' = [shown EXCEPT ![s] = page]
          /\ calls' = Append(calls,
                [s |-> s, img |-> req.img, h |-> req.h, v |-> req.v, t |-> req.t,
                 at |-> req.at, done |-> now, invoked |-> TRUE, outcome |-> outcome,
                 result |-> IF b.returned THEN b.value ELSE Raised,
                 display |-> IF b.returned THEN DisplayOf(page) ELSE "fault"])
    /\ pc' = [pc EXCEPT ![s] = "ui"]
    /\ pending' = [pending EXCEPT ![s] = None]
    /\ UNCHANGED <<api_key, client, uploaded, now, invocations>>

Tick ==
    /\ now + ClockStep <= MaxTicks * ClockStep
    /\ now' = now + ClockStep
    /\ UNCHANGED <<api_key, pc, client, uploaded, shown, pending,
                   cache, locks, invocations, calls>>

NextOver(SS, II, YP) ==
    \/ \E s \in SS : RunScript(s)
    \/ \E s \in SS, img \in II : Upload(s, img)
    \/ \E s \in SS, a \in YP : Adjust(s, a[1], a[2])
    \/ \E s \in SS, a \in YP : Click(s, a[1], a[2])
    \/ \E s \in SS : Compute(s)
    \/ \E s \in SS, o \in Outcomes : ExternalReturn(s, o)
    \/ Tick

Next == NextOver({"s1"}, Images, SliderChoices)
NextConc == NextOver(Sessions, {"photoA"}, {<<30, -10>>})

Spec == Init /\ [][Next]_vars

\* Two sessions of the same process pressing the button for the same photo
\* and the same slider position.
SpecConc == Init /\ [][NextConc]_vars

\* The thread of the one session of Next is scheduled and the clock runs; nothing obliges the
\* hosted model to answer. A read timeout would come back as an error of the
\* call, but only a client built with one can raise it.
ReadTimeout(s) ==
    /\ pc[s] = "calling"
    /\ client[s].timeout # None
    /\ ExternalReturn(s, "ConnectionError")

Fairness ==
    /\ WF_vars(Tick)
    /\ WF_vars(RunScript("s1"))
    /\ WF_vars(Compute("s1"))
    /\ WF_vars(ReadTimeout("s1"))

LiveSpec == Init /\ [][Next]_vars /\ Fairness

\* The prompt builder over the whole range of both sliders: one session with
\* a photo uploaded presses the button at every slider position.
InitPrompt ==
    /\ api_key = "fal-key"
    /\ pc = [s \in Sessions |-> IF s = "s1" THEN "ui" ELSE "start"]
    /\ client = [s \in Sessions |-> IF s = "s1" THEN Configure("fal-key").client ELSE None]
    /\ uploaded = [s \in Sessions |-> IF s = "s1" THEN "photoA" ELSE NoFile]
    /\ shown = [s \in Sessions |-> Blank]
    /\ pending = [s \in Sessions |-> None]
    /\ cache = {}
    /\ locks = {}
    /\ now = 0
    /\ invocations = 0
    /\ calls = <<>>

NextPrompt ==
    \/ \E y \in YawMin..YawMax, p \in PitchMin..PitchMax : Click("s1", y, p)
    \/ Compute("s1")

SpecPrompt == InitPrompt /\ [][NextPrompt]_vars

-----------------------------------------------------------------------------
(* Vocabulary of the properties *)

N == Len(calls)
FullKey(c) == <<c.img, c.h, c.v>>
Failed(c) == c.outcome \in {"HfHubHTTPError", "ConnectionError"}

Contains(str, sub) ==
    \E i \in 1..(Len(str) - Len(sub) + 1) : SubSeq(str, i, i + Len(sub) - 1) = sub

DigitValue(c) == CHOOSE k \in 0..9 : SubSeq("0123456789", k + 1, k + 1) = c
IsDigit(c) == \E k \in 0..9 : SubSeq("0123456789", k + 1, k + 1) = c

\* str is the decimal numeral of n (one or two digits, no leading zero)
IsNumeralOf(str, n) ==
    \/ /\ Len(str) = 1 /\ IsDigit(str) /\ DigitValue(str) = n
    \/ /\ Len(str) = 2
       /\ IsDigit(SubSeq(str, 1, 1)) /\ IsDigit(SubSeq(str, 2, 2))
       /\ DigitValue(SubSeq(str, 1, 1)) # 0
       /\ 10 * DigitValue(SubSeq(str, 1, 1)) + DigitValue(SubSeq(str, 2, 2)) = n

\* str contains  before <numeral of n> after
ContainsAmount(str, before, n, after) ==
    \E i \in (Len(before) + 1)..Len(str), len \in 1..2 :
        /\ SubSeq(str, i - Len(before), i - 1) = before
        /\ IsNumeralOf(SubSeq(str, i, i + len - 1), n)
        /\ SubSeq(str, i + len, i + len + Len(after) - 1) = after

YawPhraseOK(h, pr) ==
    /\ (h >= -5 /\ h <= 5) => Contains(pr, "Make them look forward and ")
    /\ h > 5 => ContainsAmount(pr, "Make them look approximately ", h, " degrees to the right and ")
    /\ h < -5 => ContainsAmount(pr, "Make them look approximately ", -h, " degrees to the left and ")

PitchPhraseOK(v, pr) ==
    /\ (v >= -5 /\ v <= 5) => Contains(pr, " and level. Do not")
    /\ v > 5 => ContainsAmount(pr, " and tilted approximately ", v, " degrees upward. Do not")
    /\ v < -5 => ContainsAmount(pr, " and tilted approximately ", -v, " degrees downward. Do not")

-----------------------------------------------------------------------------
(* C1: a call is answered from the store only with a result that an earlier *)
(* call with the same (image, yaw, pitch) obtained from the external        *)
(* capability: requests whose keys differ in the image, the yaw or the      *)
(* pitch each get their own invocation, and a photo never receives the      *)
(* result computed for another photo.                                       *)
C1_DistinctKeysInvokeSeparately ==
    \A j \in 1..N :
        ~calls[j].invoked =>
            \E i \in 1..(j - 1) :
                /\ calls[i].invoked
                /\ FullKey(calls[i]) = FullKey(calls[j])
                /\ calls[i].result = calls[j].result

(* C2: for a fixed (image, yaw, pitch), the first call invokes the external *)
(* capability once, and every later call with that key issued less than one *)
(* hour after it is a hit: no invocation, same result as the first call.    *)
C2_OneInvocationPerKeyPerWindow ==
    \A i \in 1..N :
        (\A k \in 1..(i - 1) : FullKey(calls[k]) # FullKey(calls[i])) =>
            /\ calls[i].invoked
            /\ \A j \in (i + 1)..N :
                  (FullKey(calls[j]) = FullKey(calls[i]) /\ calls[j].t < calls[i].t + TTL)
                      => (~calls[j].invoked /\ calls[j].result = calls[i].result)

(* C3: after a call for which the external capability failed, the next call *)
(* with the same (image, yaw, pitch) invokes the external capability again. *)
C3_FailureIsRetried ==
    \A i \in 1..N, j \in 1..N :
        (/\ i < j
         /\ Failed(calls[i])
         /\ FullKey(calls[j]) = FullKey(calls[i])
         /\ \A k \in (i + 1)..(j - 1) : FullKey(calls[k]) # FullKey(calls[i]))
            => calls[j].invoked

(* C4: every error raised by the external call is caught in                 *)
(* generate_new_pose: the call returns None with the error message shown,   *)
(* and no run ever ends in an uncaught exception.                           *)
C4_ErrorsAreCaught ==
    /\ \A i \in 1..N :
          Failed(calls[i]) => (calls[i].result = None /\ calls[i].display = "error")
    /\ \A s \in Sessions : "Uncaught exception" \notin shown[s].msgs

C4_Witness ==
    \E i \in 1..N :
        /\ calls[i].outcome = "ConnectionError"
        /\ calls[i].result = None
        /\ ErrorMessage \in shown[calls[i].s].msgs

(* C5: an entry is served only for less than one hour after it was created: *)
(* a call that finds the entry of its key one hour old or older invokes the *)
(* external capability afresh, and the store then holds, for each key, only *)
(* the entry of the latest computation.                                     *)
C5_ExpiredEntryIsRecomputed ==
    /\ \A j \in 1..N :
          ~calls[j].invoked =>
              \E i \in 1..(j - 1) :
                  /\ calls[i].invoked
                  /\ CacheKey(calls[i].img, calls[i].h, calls[i].v)
                        = CacheKey(calls[j].img, calls[j].h, calls[j].v)
                  /\ calls[i].result = calls[j].result
                  /\ calls[j].at - calls[i].done < 3600
    /\ \A e \in cache :
          /\ \A f \in cache : f.key = e.key => f = e
          /\ \E i \in 1..N :
                /\ calls[i].invoked
                /\ CacheKey(calls[i].img, calls[i].h, calls[i].v) = e.key
                /\ calls[i].done = e.created /\ calls[i].result = e.value
                /\ \A k \in (i + 1)..N :
                      CacheKey(calls[k].img, calls[k].h, calls[k].v) = e.key
                          => ~calls[k].invoked

C5_Witness ==
    \E i \in 1..N, j \in 1..N :
        /\ i < j
        /\ FullKey(calls[i]) = FullKey(calls[j])
        /\ calls[i].invoked /\ calls[j].invoked
        /\ calls[j].at - calls[i].done >= 3600
        /\ \E e \in cache : e.created = calls[j].done /\ e.value = calls[j].result

(* C6: the prompt uses the inclusive dead zone -5..5 for each angle on its  *)
(* own: yaw in -5..5 gives "forward", yaw > 5 "<|yaw|> degrees to the       *)
(* right", yaw < -5 "<|yaw|> degrees to the left"; pitch in -5..5 gives     *)
(* "level", pitch > 5 the upward and pitch < -5 the downward phrase with    *)
(* |pitch|; the identity-preservation clause is always there.               *)
C6_DeadZonePrompt ==
    \A s \in Sessions :
        pc[s] = "calling" =>
            /\ YawPhraseOK(pending[s].h, pending[s].prompt)
            /\ PitchPhraseOK(pending[s].v, pending[s].prompt)
            /\ Contains(pending[s].prompt,
                  "Do not change the person's identity, facial features, hair, or expression.")

C6_Witness ==
    /\ pc["s1"] = "calling"
    /\ pending["s1"].h = 6 /\ pending["s1"].v = -5
    /\ Contains(pending["s1"].prompt, "approximately 6 degrees to the right and level.")

(* C7: every generate_new_pose call whose external call has been issued     *)
(* eventually returns, an image or a failure.                               *)
C7_EveryCallReturns ==
    \A s \in Sessions : (pc[s] = "calling") ~> (pc[s] # "calling")

(* C8: no call ends with neither the result image nor a failure message on  *)
(* the page; a response without payload is shown as a failure.              *)
C8_NoSilentEmptyResult ==
    \A i \in 1..N : calls[i].display # "nothing"

C10_MissingKeyHalts ==
    api_key \in {Unset, ""} =>
        /\ \A s \in Sessions :
              /\ client[s] = None
              /\ pc[s] \in {"start", "stopped"}
              /\ uploaded[s] = NoFile
              /\ pending[s] = None
              /\ pc[s] = "stopped" => shown[s].msgs = {"Configuration Error"}
        /\ invocations = 0
        /\ calls = <<>>

C10_Witness ==
    /\ api_key = ""
    /\ pc["s1"] = "stopped"
    /\ "Configuration Error" \in shown["s1"].msgs

====
